---- MODULE Spec2Model ----
(***************************************************************************)
(* Speech-to-text converter: the two tables of db/tables.ts and the five   *)
(* actions of src/actions/index.ts (createSttJob, updateSttJob,            *)
(* addSttSegments, getSttJobWithSegments, listMySttJobs).                  *)
(*                                                                         *)
(* An optional value (undefined in an input, NULL in a column) is the      *)
(* empty sequence None; a present value v is Some(v) = <<v>>.              *)
(***************************************************************************)
EXTENDS Integers, Sequences, FiniteSets, TLC

VARIABLES SttJobs, SttSegments, now, ops, resp, calls

vars == <<SttJobs, SttSegments, now, ops, resp, calls>>

\* ------------------------------------------------------------------ bounds
MaxOps == 4

\* ------------------------------------------------------- program constants
MaxPageSize == 100
DefaultPage == 1
DefaultPageSize == 20

\* ------------------------------------------------------------ value domains
None == << >>
Some(v) == <<v>>

Users == {"u1", "u2"}
Contexts == {None} \cup {Some(u) : u \in Users}

\* The two Update Job calls in flight at once.
CallIds == {"call1", "call2"}

\* Mutant of randomUUID: the same identifier every time.
randomUUIDFixed(used) == 1

\* crypto.randomUUID(): an identifier no row uses. Identifiers are opaque and
\* only ever compared for equality, so the fresh one is named by the least
\* unused number.
randomUUID(used) == CHOOSE n \in 1..(Cardinality(used) + 1) : n \notin used

\* The identifiers a caller can pass: every existing job's and one of no job.
JobIdInputs == {r.id : r \in SttJobs} \cup {randomUUID({r.id : r \in SttJobs})}

StatusEnum == {"queued", "processing", "completed", "failed"}

IsUrl(s) == s \in {"https://x/a.mp3"}

\* Mutant of requireUser: the wrong error code.
requireUserForbidden(context) == IF context = None THEN "FORBIDDEN" ELSE "OK"

\* ------------------------------------------------------------ requireUser
\* locals?.user; a missing user throws UNAUTHORIZED.
requireUser(context) == IF context = None THEN "UNAUTHORIZED" ELSE "OK"

\* ------------------------------------------------------------- createSttJob
CreateInputs ==
  { [inputAudioUrl |-> "https://x/a.mp3", audioFormat |-> Some("mp3"),
     language |-> None, modelName |-> None],
    [inputAudioUrl |-> "not a url", audioFormat |-> None,
     language |-> None, modelName |-> None] }

ValidCreateInput(input) == IsUrl(input.inputAudioUrl)

\* Mutant of NewJobRow: errorMessage starts as the empty string.
NewJobRowEmptyError(jobId, userId, input) ==
  [ id |-> jobId,
    userId |-> userId,
    inputAudioUrl |-> input.inputAudioUrl,
    audioFormat |-> input.audioFormat,
    language |-> input.language,
    modelName |-> input.modelName,
    transcriptText |-> None,
    durationSeconds |-> None,
    wordCount |-> None,
    status |-> Some("queued"),
    errorMessage |-> Some(""),
    createdAt |-> now,
    completedAt |-> None ]

\* The row db.insert(SttJobs).values({...}) stores: the columns the handler
\* leaves out are NULL, createdAt takes its default NOW.
NewJobRow(jobId, userId, input) ==
  [ id |-> jobId,
    userId |-> userId,
    inputAudioUrl |-> input.inputAudioUrl,
    audioFormat |-> input.audioFormat,
    language |-> input.language,
    modelName |-> input.modelName,
    transcriptText |-> None,
    durationSeconds |-> None,
    wordCount |-> None,
    status |-> Some("queued"),
    errorMessage |-> None,
    createdAt |-> now,
    completedAt |-> None ]

Response(op, context, input, code, data, stmts) ==
  [op |-> op, context |-> context, input |-> input, code |-> code,
   data |-> data, stmts |-> stmts]

createSttJob(context, input) ==
  /\ ops < MaxOps
  /\ ops' = ops + 1
  /\ UNCHANGED <<SttSegments, now, calls>>
  /\ IF ~ValidCreateInput(input) THEN
       /\ resp' = Response("createSttJob", context, input, "BAD_REQUEST", None, << >>)
       /\ UNCHANGED SttJobs
     ELSE IF requireUser(context) # "OK" THEN
       /\ resp' = Response("createSttJob", context, input, requireUser(context), None, << >>)
       /\ UNCHANGED SttJobs
     ELSE
       LET jobId == randomUUID({r.id : r \in SttJobs}) IN
       /\ SttJobs' = SttJobs \cup {NewJobRow(jobId, context[1], input)}
       /\ resp' = Response("createSttJob", context, input, "OK",
                           [id |-> jobId], <<"insert">>)

\* ------------------------------------------------------------- updateSttJob
UpdateFields(st, tt, em, ds, wc, ca) ==
  [status |-> st, transcriptText |-> tt, errorMessage |-> em,
   durationSeconds |-> ds, wordCount |-> wc, completedAt |-> ca]

UpdateFieldSets ==
  { UpdateFields(Some("processing"), None, None, None, None, None),
    UpdateFields(Some("completed"), Some("hello"), None, Some(2), Some(1), Some(1)),
    UpdateFields(Some("failed"), Some(""), Some("boom"), Some(0), Some(0), None),
    UpdateFields(None, None, Some("boom"), None, None, None),
    UpdateFields(Some("bogus"), None, None, Some(-1), None, None) }

UpdateInputs ==
  { [id |-> id, fields |-> f] : id \in JobIdInputs, f \in UpdateFieldSets }

\* z.enum([...]).optional(), z.number().nonnegative().optional(),
\* z.number().int().nonnegative().optional()
ValidUpdateInput(input) ==
  /\ input.fields.status # None => input.fields.status[1] \in StatusEnum
  /\ input.fields.durationSeconds # None => input.fields.durationSeconds[1] >= 0
  /\ input.fields.wordCount # None => input.fields.wordCount[1] >= 0

\* Mutant of SelectJob: the owner filter is missing.
SelectJobAnyOwner(id, userId) == {r \in SttJobs : r.id = id}

\* db.select().from(SttJobs).where(and(eq(id), eq(userId))): the matching rows.
SelectJob(id, userId) == {r \in SttJobs : r.id = id /\ r.userId = userId}

\* .get(): the first matching row, or undefined (None).
GetFirst(rows) == IF rows = {} THEN None ELSE Some(CHOOSE r \in rows : TRUE)

\* a ?? b
Coalesce(a, b) == IF a # None THEN a ELSE b

\* Mutant of Merge: a full overwrite, omitted fields become empty.
MergeOverwrite(fields, job) ==
  [ status |-> fields.status,
    transcriptText |-> fields.transcriptText,
    errorMessage |-> fields.errorMessage,
    durationSeconds |-> fields.durationSeconds,
    wordCount |-> fields.wordCount,
    completedAt |-> fields.completedAt ]

\* Mutant of Merge: a || b in place of a ?? b, so a supplied "" or 0 is
\* dropped for the stored value.
MergeFalsy(fields, job) ==
  [ status |-> IF fields.status \notin {None, Some("")}
                 THEN fields.status ELSE job.status,
    transcriptText |-> IF fields.transcriptText \notin {None, Some("")}
                         THEN fields.transcriptText ELSE job.transcriptText,
    errorMessage |-> IF fields.errorMessage \notin {None, Some("")}
                       THEN fields.errorMessage ELSE job.errorMessage,
    durationSeconds |-> IF fields.durationSeconds \notin {None, Some(0)}
                          THEN fields.durationSeconds ELSE job.durationSeconds,
    wordCount |-> IF fields.wordCount \notin {None, Some(0)}
                    THEN fields.wordCount ELSE job.wordCount,
    completedAt |-> Coalesce(fields.completedAt, job.completedAt) ]

\* fieldsToUpdate
Merge(fields, job) ==
  [ status |-> Coalesce(fields.status, job.status),
    transcriptText |-> Coalesce(fields.transcriptText, job.transcriptText),
    errorMessage |-> Coalesce(fields.errorMessage, job.errorMessage),
    durationSeconds |-> Coalesce(fields.durationSeconds, job.durationSeconds),
    wordCount |-> Coalesce(fields.wordCount, job.wordCount),
    completedAt |-> Coalesce(fields.completedAt, job.completedAt) ]

\* db.update(SttJobs).set(fieldsToUpdate).where(eq(SttJobs.id, jobId))
UpdateRows(rows, jobId, f) ==
  { IF r.id = jobId
      THEN [r EXCEPT !.status = f.status,
                     !.transcriptText = f.transcriptText,
                     !.errorMessage = f.errorMessage,
                     !.durationSeconds = f.durationSeconds,
                     !.wordCount = f.wordCount,
                     !.completedAt = f.completedAt]
      ELSE r : r \in rows }

updateSttJob(context, input) ==
  /\ ops < MaxOps
  /\ ops' = ops + 1
  /\ UNCHANGED <<SttSegments, now, calls>>
  /\ IF ~ValidUpdateInput(input) THEN
       /\ resp' = Response("updateSttJob", context, input, "BAD_REQUEST", None, << >>)
       /\ UNCHANGED SttJobs
     ELSE IF requireUser(context) # "OK" THEN
       /\ resp' = Response("updateSttJob", context, input, requireUser(context), None, << >>)
       /\ UNCHANGED SttJobs
     ELSE
       LET job == GetFirst(SelectJob(input.id, context[1])) IN
       IF job = None THEN
         /\ resp' = Response("updateSttJob", context, input, "NOT_FOUND", None,
                             <<"select">>)
         /\ UNCHANGED SttJobs
       ELSE
         /\ SttJobs' = UpdateRows(SttJobs, job[1].id, Merge(input.fields, job[1]))
         /\ resp' = Response("updateSttJob", context, input, "OK",
                             [id |-> job[1].id], <<"select", "update">>)

\* ----------------------------------------------------------- addSttSegments
Segment(oi, tx, st, en, sp, cf) ==
  [orderIndex |-> oi, text |-> tx, startTimeSeconds |-> st,
   endTimeSeconds |-> en, speakerLabel |-> sp, confidence |-> cf]

Seg1 == Segment(1, "a", Some(0), Some(1), Some("Speaker 1"), Some(1))
Seg2 == Segment(2, "b", None, None, None, None)

SegmentLists ==
  { <<Seg1>>, <<Seg2, Seg1>>,
    << >>,
    <<Segment(0, "", Some(-1), None, None, Some(2))>> }

AddInputs ==
  { [jobId |-> id, segments |-> l] : id \in JobIdInputs, l \in SegmentLists }

\* z.array(z.object({...})).min(1)
ValidSegment(g) ==
  /\ g.orderIndex > 0
  /\ g.text # ""
  /\ g.startTimeSeconds # None => g.startTimeSeconds[1] >= 0
  /\ g.endTimeSeconds # None => g.endTimeSeconds[1] >= 0
  /\ g.confidence # None => (g.confidence[1] >= 0 /\ g.confidence[1] <= 1)

ValidAddInput(input) ==
  /\ Len(input.segments) >= 1
  /\ \A i \in 1..Len(input.segments) : ValidSegment(input.segments[i])

\* One crypto.randomUUID() per segment, in the order of the map.
RECURSIVE FreshIds(_, _)
FreshIds(used, n) ==
  IF n = 0 THEN << >>
  ELSE LET id == randomUUID(used) IN <<id>> \o FreshIds(used \cup {id}, n - 1)

\* Mutant of NewSegmentRows: jobId is computed from the segment's identifier.
NewSegmentRowsWrongJob(jobId, segments, ids) ==
  { [ id |-> ids[i],
      jobId |-> ids[i] + 1,
      orderIndex |-> segments[i].orderIndex,
      startTimeSeconds |-> segments[i].startTimeSeconds,
      endTimeSeconds |-> segments[i].endTimeSeconds,
      text |-> segments[i].text,
      speakerLabel |-> segments[i].speakerLabel,
      confidence |-> segments[i].confidence,
      createdAt |-> now ] : i \in 1..Len(segments) }

\* values: input.segments.map(...), createdAt by its default NOW
NewSegmentRows(jobId, segments, ids) ==
  { [ id |-> ids[i],
      jobId |-> jobId,
      orderIndex |-> segments[i].orderIndex,
      startTimeSeconds |-> segments[i].startTimeSeconds,
      endTimeSeconds |-> segments[i].endTimeSeconds,
      text |-> segments[i].text,
      speakerLabel |-> segments[i].speakerLabel,
      confidence |-> segments[i].confidence,
      createdAt |-> now ] : i \in 1..Len(segments) }

addSttSegments(context, input) ==
  /\ ops < MaxOps
  /\ ops' = ops + 1
  /\ UNCHANGED <<SttJobs, now, calls>>
  /\ IF ~ValidAddInput(input) THEN
       /\ resp' = Response("addSttSegments", context, input, "BAD_REQUEST", None, << >>)
       /\ UNCHANGED SttSegments
     ELSE IF requireUser(context) # "OK" THEN
       /\ resp' = Response("addSttSegments", context, input, requireUser(context), None, << >>)
       /\ UNCHANGED SttSegments
     ELSE
       LET job == GetFirst(SelectJob(input.jobId, context[1])) IN
       IF job = None THEN
         /\ resp' = Response("addSttSegments", context, input, "NOT_FOUND", None,
                             <<"select">>)
         /\ UNCHANGED SttSegments
       ELSE
         LET ids == FreshIds({r.id : r \in SttSegments}, Len(input.segments))
             values == NewSegmentRows(input.jobId, input.segments, ids)
         IN
         /\ SttSegments' = SttSegments \cup values
         /\ resp' = Response("addSttSegments", context, input, "OK",
                             [inserted |-> Cardinality(values)],
                             <<"select", "insert">>)

\* ---------------------------------------------------- getSttJobWithSegments
GetInputs == { [id |-> id] : id \in JobIdInputs }

\* Mutant of AscByOrderIndex: no orderBy, the rows come in any order.
AnyOrder(rows) ==
  { s \in [1..Cardinality(rows) -> rows] :
      \A i, j \in 1..Cardinality(rows) : i # j => s[i] # s[j] }

\* The orders .orderBy(asc(SttSegments.orderIndex)).all() may return rows in:
\* ascending orderIndex, rows with equal orderIndex in any order.
AscByOrderIndex(rows) ==
  { s \in [1..Cardinality(rows) -> rows] :
      /\ \A i, j \in 1..Cardinality(rows) : i # j => s[i] # s[j]
      /\ \A i, j \in 1..Cardinality(rows) :
           i < j => s[i].orderIndex <= s[j].orderIndex }

SelectSegments(jobId) == {r \in SttSegments : r.jobId = jobId}

getSttJobWithSegments(context, input) ==
  /\ ops < MaxOps
  /\ ops' = ops + 1
  /\ UNCHANGED <<SttJobs, SttSegments, now, calls>>
  /\ IF requireUser(context) # "OK" THEN
       resp' = Response("getSttJobWithSegments", context, input, requireUser(context),
                        None, << >>)
     ELSE
       LET job == GetFirst(SelectJob(input.id, context[1])) IN
       IF job = None THEN
         resp' = Response("getSttJobWithSegments", context, input, "NOT_FOUND",
                          None, <<"select">>)
       ELSE
         \E segments \in AscByOrderIndex(SelectSegments(job[1].id)) :
           resp' = Response("getSttJobWithSegments", context, input, "OK",
                            [job |-> job[1], segments |-> segments],
                            <<"select", "select">>)

\* ------------------------------------------------------------ listMySttJobs
ListInputs ==
  { [page |-> None, pageSize |-> None],
    [page |-> Some(1), pageSize |-> Some(1)],
    [page |-> Some(2), pageSize |-> Some(1)],
    [page |-> None, pageSize |-> Some(MaxPageSize)],
    [page |-> Some(0), pageSize |-> Some(MaxPageSize + 1)] }

\* z.number().int().positive().default(1),
\* z.number().int().positive().max(100).default(20)
ParseListInput(input) ==
  [page |-> IF input.page = None THEN DefaultPage ELSE input.page[1],
   pageSize |-> IF input.pageSize = None THEN DefaultPageSize ELSE input.pageSize[1]]

ValidListInput(input) ==
  LET parsed == ParseListInput(input) IN
  /\ parsed.page > 0
  /\ parsed.pageSize > 0
  /\ parsed.pageSize <= MaxPageSize

SelectUserJobs(userId) == {r \in SttJobs : r.userId = userId}

\* Mutant of DescByCreatedAt: asc in place of desc.
AscByCreatedAt(rows) ==
  { s \in [1..Cardinality(rows) -> rows] :
      /\ \A i, j \in 1..Cardinality(rows) : i # j => s[i] # s[j]
      /\ \A i, j \in 1..Cardinality(rows) :
           i < j => s[i].createdAt <= s[j].createdAt }

\* The orders .orderBy(desc(SttJobs.createdAt)).all() may return rows in:
\* descending createdAt, rows with equal createdAt in any order.
DescByCreatedAt(rows) ==
  { s \in [1..Cardinality(rows) -> rows] :
      /\ \A i, j \in 1..Cardinality(rows) : i # j => s[i] # s[j]
      /\ \A i, j \in 1..Cardinality(rows) :
           i < j => s[i].createdAt >= s[j].createdAt }

\* .limit(pageSize).offset(offset)
LimitOffset(s, limit, offset) ==
  SubSeq(s, offset + 1, IF offset + limit < Len(s) THEN offset + limit ELSE Len(s))

listMySttJobs(context, input) ==
  /\ ops < MaxOps
  /\ ops' = ops + 1
  /\ UNCHANGED <<SttJobs, SttSegments, now, calls>>
  /\ IF ~ValidListInput(input) THEN
       resp' = Response("listMySttJobs", context, input, "BAD_REQUEST", None, << >>)
     ELSE IF requireUser(context) # "OK" THEN
       resp' = Response("listMySttJobs", context, input, requireUser(context), None, << >>)
     ELSE
       LET parsed == ParseListInput(input)
           offset == (parsed.page - 1) * parsed.pageSize
       IN
       \E sorted \in DescByCreatedAt(SelectUserJobs(context[1])) :
         LET items == LimitOffset(sorted, parsed.pageSize, offset) IN
         resp' = Response("listMySttJobs", context, input, "OK",
                          [items |-> items, total |-> Len(items)], <<"select">>)

\* ---------------------------------------------- updateSttJob, step by step
\* A call in flight: its context and input, the row its select returned (the
\* handler's local `job`) and its outcome. The handler awaits twice, after the
\* select and after the update; other calls run in between.
Call(pc, context, input, job, code) ==
  [pc |-> pc, context |-> context, input |-> input, job |-> job, code |-> code]

IdleCall == Call("idle", None, None, None, "NONE")

\* Schema validation, requireUser and the select; a failure ends the call
\* (its outcome is in resp, its slot is free again).
updateSelect(c, context, input) ==
  /\ calls[c].pc \in {"idle", "done"}
  /\ ops < MaxOps
  /\ ops' = ops + 1
  /\ UNCHANGED <<SttJobs, SttSegments, now>>
  /\ IF ~ValidUpdateInput(input) THEN
       /\ calls' = [calls EXCEPT ![c] = IdleCall]
       /\ resp' = Response("updateSttJob", context, input, "BAD_REQUEST", None, << >>)
     ELSE IF requireUser(context) # "OK" THEN
       /\ calls' = [calls EXCEPT ![c] = IdleCall]
       /\ resp' = Response("updateSttJob", context, input, requireUser(context), None, << >>)
     ELSE
       LET job == GetFirst(SelectJob(input.id, context[1])) IN
       IF job = None THEN
         /\ calls' = [calls EXCEPT ![c] = IdleCall]
         /\ resp' = Response("updateSttJob", context, input, "NOT_FOUND", None,
                             <<"select">>)
       ELSE
         /\ calls' = [calls EXCEPT ![c] = Call("selected", context, input, job, "NONE")]
         /\ UNCHANGED resp

\* Mutant of updateWrite: the merge is made against the row as it is now.
updateWriteFresh(c) ==
  /\ calls[c].pc = "selected"
  /\ SttJobs' = UpdateRows(SttJobs, calls[c].job[1].id,
                           Merge(calls[c].input.fields,
                                 CHOOSE r \in SttJobs : r.id = calls[c].job[1].id))
  /\ calls' = [calls EXCEPT ![c].pc = "done", ![c].code = "OK"]
  /\ resp' = Response("updateSttJob", calls[c].context, calls[c].input, "OK",
                      [id |-> calls[c].job[1].id], <<"select", "update">>)
  /\ UNCHANGED <<SttSegments, now, ops>>

\* fieldsToUpdate from the row read earlier, the update statement, the return.
updateWrite(c) ==
  /\ calls[c].pc = "selected"
  /\ SttJobs' = UpdateRows(SttJobs, calls[c].job[1].id,
                           Merge(calls[c].input.fields, calls[c].job[1]))
  /\ calls' = [calls EXCEPT ![c].pc = "done", ![c].code = "OK"]
  /\ resp' = Response("updateSttJob", calls[c].context, calls[c].input, "OK",
                      [id |-> calls[c].job[1].id], <<"select", "update">>)
  /\ UNCHANGED <<SttSegments, now, ops>>

\* ------------------------------------------------------------------- clock
\* Time passes between calls. The program reads the clock only to stamp
\* createdAt and only the order of the stamps is ever observed, so the clock
\* is advanced only past an instant some row was stamped with.
Tick ==
  /\ \E r \in SttJobs \cup SttSegments : r.createdAt = now
  /\ now' = now + 1
  /\ UNCHANGED <<SttJobs, SttSegments, ops, resp, calls>>

\* --------------------------------------------------------------------- spec
Init ==
  /\ SttJobs = {}
  /\ SttSegments = {}
  /\ now = 0
  /\ ops = 0
  /\ resp = Response("none", None, None, "OK", None, << >>)
  /\ calls = [c \in CallIds |-> IdleCall]

Next ==
  \/ Tick
  \/ \E context \in Contexts, input \in CreateInputs : createSttJob(context, input)
  \/ \E context \in Contexts, input \in UpdateInputs : updateSttJob(context, input)
  \/ \E context \in Contexts, input \in AddInputs : addSttSegments(context, input)
  \/ \E context \in Contexts, input \in GetInputs : getSttJobWithSegments(context, input)
  \/ \E context \in Contexts, input \in ListInputs : listMySttJobs(context, input)

Spec == Init /\ [][Next]_vars

\* Concurrent Update Job calls: the handler's two statements are separate steps.
\* createdAt plays no part in an update, so the clock stands still here.
NextConc ==
  \/ \E context \in Contexts, input \in CreateInputs : createSttJob(context, input)
  \/ \E c \in CallIds, context \in Contexts, input \in UpdateInputs :
       updateSelect(c, context, input)
  \/ \E c \in CallIds : updateWrite(c)

SpecConc == Init /\ [][NextConc]_vars

\* ================================================================== claims
ResultFields ==
  {"status", "transcriptText", "errorMessage", "durationSeconds", "wordCount",
   "completedAt"}

\* The row of a table with a given primary key.
RowOf(rows, id) == CHOOSE r \in rows : r.id = id

\* A step that handled one call: its response is resp'.
CallStep == ops' = ops + 1

\* The call's input passed its action's schema.
PassedSchema(r) ==
  CASE r.op = "createSttJob" -> ValidCreateInput(r.input)
    [] r.op = "updateSttJob" -> ValidUpdateInput(r.input)
    [] r.op = "addSttSegments" -> ValidAddInput(r.input)
    [] r.op = "listMySttJobs" -> ValidListInput(r.input)
    [] OTHER -> TRUE

\* The job id a call names.
TargetId(r) == IF r.op = "addSttSegments" THEN r.input.jobId ELSE r.input.id

\* ---------------------------------------------------------------------- C1
\* The step C1 is about.
C1_StepOk ==
  ( /\ CallStep
    /\ resp'.op \in {"getSttJobWithSegments", "updateSttJob", "addSttSegments"}
    /\ PassedSchema(resp')
    /\ resp'.context # None
    /\ ~(\E r \in SttJobs : r.id = TargetId(resp') /\ r.userId = resp'.context[1]) )
  => ( /\ resp'.code = "NOT_FOUND"
       /\ resp'.data = None
       /\ resp'.stmts = <<"select">>
       /\ SttJobs' = SttJobs
       /\ SttSegments' = SttSegments )

\* C1: a schema-valid Get Job With Segments, Update Job or Append Segments by
\* an authenticated user who did not create the job whose id it names fails
\* with NOT_FOUND and no data, exactly as for an id no job has, and leaves
\* every job and every segment as it was.
C1_NotFoundForNonOwner == [][C1_StepOk]_vars

\* A non-owner named an existing job, correctly, and got NOT_FOUND.
C1_Witness ==
  /\ resp.op \in {"getSttJobWithSegments", "updateSttJob", "addSttSegments"}
  /\ resp.code = "NOT_FOUND"
  /\ \E r \in SttJobs : r.id = TargetId(resp) /\ r.userId # resp.context[1]

\* ---------------------------------------------------------------------- C2
\* The step C2 is about.
C2_StepOk ==
  (CallStep /\ resp'.op = "updateSttJob" /\ resp'.code = "OK")
  => LET id == resp'.input.id
         old == RowOf(SttJobs, id)
         new == RowOf(SttJobs', id)
     IN
     /\ \E r \in SttJobs : r.id = id /\ r.userId = resp'.context[1]
     /\ \A f \in ResultFields :
          new[f] = IF resp'.input.fields[f] # None
                     THEN resp'.input.fields[f]
                     ELSE old[f]
     /\ new.id = old.id
     /\ new.userId = old.userId
     /\ new.inputAudioUrl = old.inputAudioUrl
     /\ new.audioFormat = old.audioFormat
     /\ new.language = old.language
     /\ new.modelName = old.modelName
     /\ new.createdAt = old.createdAt
     /\ {r \in SttJobs' : r.id # id} = {r \in SttJobs : r.id # id}
     /\ Cardinality(SttJobs') = Cardinality(SttJobs)

\* C2: a successful Update Job sets each of the six result fields to the
\* supplied value when one was supplied and leaves it as it was otherwise;
\* the job's id, owner, input audio reference and creation timestamp, and
\* every other job, are unchanged.
C2_UpdateIsMerge == [][C2_StepOk]_vars

\* An update that supplied only a status left an earlier transcript in place.
C2_Witness ==
  /\ resp.op = "updateSttJob"
  /\ resp.code = "OK"
  /\ resp.input.fields = UpdateFields(Some("processing"), None, None, None, None, None)
  /\ RowOf(SttJobs, resp.input.id).status = Some("processing")
  /\ RowOf(SttJobs, resp.input.id).transcriptText = Some("hello")
  /\ RowOf(SttJobs, resp.input.id).durationSeconds = Some(2)

\* ---------------------------------------------------------------------- C3
\* The step C3 as stated is about.
C3_OriginalStep ==
  (CallStep /\ resp'.context = None)
  => ( /\ resp'.code = "UNAUTHORIZED"
       /\ resp'.stmts = << >>
       /\ SttJobs' = SttJobs
       /\ SttSegments' = SttSegments )

\* C3 as stated: a call whose context carries no user fails with UNAUTHORIZED,
\* runs no statement and changes nothing, whatever its input.
C3_Original == [][C3_OriginalStep]_vars

\* The step C3 is about.
C3_StepOk ==
  (CallStep /\ resp'.context = None)
  => ( /\ resp'.stmts = << >>
       /\ resp'.data = None
       /\ SttJobs' = SttJobs
       /\ SttSegments' = SttSegments
       /\ resp'.code = IF PassedSchema(resp') THEN "UNAUTHORIZED" ELSE "BAD_REQUEST" )

\* C3 amended: a call whose context carries no user runs no statement and
\* changes nothing, whatever its input; it fails with UNAUTHORIZED whenever
\* its input passes the action's schema (an input the schema rejects fails as
\* BAD_REQUEST before the handler, and so before the user check, runs).
C3_UnauthorizedFirst == [][C3_StepOk]_vars

\* An anonymous Update Job that names an existing job was refused.
C3_Witness ==
  /\ resp.op = "updateSttJob"
  /\ resp.context = None
  /\ resp.code = "UNAUTHORIZED"
  /\ \E r \in SttJobs : r.id = resp.input.id

\* ---------------------------------------------------------------------- C4
\* The step C4 is about.
C4_StepOk ==
  ( /\ CallStep
    /\ resp'.op = "createSttJob"
    /\ ValidCreateInput(resp'.input)
    /\ resp'.context # None )
  => /\ resp'.code = "OK"
     /\ SttSegments' = SttSegments
     /\ SttJobs \subseteq SttJobs'
     /\ Cardinality(SttJobs' \ SttJobs) = 1
     /\ \A new \in SttJobs' \ SttJobs :
          /\ new.id \notin {r.id : r \in SttJobs}
          /\ new.id = resp'.data.id
          /\ new.userId = resp'.context[1]
          /\ new.status = Some("queued")
          /\ new.transcriptText = None
          /\ new.durationSeconds = None
          /\ new.wordCount = None
          /\ new.completedAt = None
          /\ new.errorMessage = None
          /\ new.inputAudioUrl = resp'.input.inputAudioUrl
          /\ new.audioFormat = resp'.input.audioFormat
          /\ new.language = resp'.input.language
          /\ new.modelName = resp'.input.modelName

\* C4: a schema-valid Create Job by an authenticated user adds exactly one
\* row; its id is no existing row's and is the id returned, its owner is the
\* caller, its status is "queued", its result fields are empty, it carries
\* the input's audio reference; no other row of either table changes.
C4_CreateInsertsOneQueuedJob == [][C4_StepOk]_vars

\* Two identical Create Job calls made two jobs.
C4_Witness ==
  /\ resp.op = "createSttJob"
  /\ resp.code = "OK"
  /\ \E a, b \in SttJobs :
       /\ a.id # b.id
       /\ b.id = resp.data.id
       /\ a.userId = b.userId
       /\ a.inputAudioUrl = b.inputAudioUrl
       /\ a.createdAt = b.createdAt
       /\ a.status = Some("queued")
       /\ b.status = Some("queued")

\* ---------------------------------------------------------------------- C5
\* C5: a successful Get Job With Segments returns the caller's job row and
\* every segment row of that job exactly once, none of another job, in
\* non-decreasing order index.
C5_GetReturnsSortedSegments ==
  (resp.op = "getSttJobWithSegments" /\ resp.code = "OK")
  => LET segments == resp.data.segments
         n == Len(segments)
     IN
     /\ resp.data.job \in SttJobs
     /\ resp.data.job.id = resp.input.id
     /\ resp.data.job.userId = resp.context[1]
     /\ {segments[i] : i \in 1..n} = {r \in SttSegments : r.jobId = resp.input.id}
     /\ n = Cardinality({r \in SttSegments : r.jobId = resp.input.id})
     /\ \A i \in 1..n : \A j \in 1..n :
          i < j => segments[i].orderIndex <= segments[j].orderIndex

\* Segments submitted as order index 2 then 1 came back as 1 then 2.
C5_Witness ==
  /\ resp.op = "getSttJobWithSegments"
  /\ resp.code = "OK"
  /\ Len(resp.data.segments) = 2
  /\ resp.data.segments[1].orderIndex = 1
  /\ resp.data.segments[2].orderIndex = 2
  /\ resp.data.segments[1].id > resp.data.segments[2].id

\* ---------------------------------------------------------------------- C6
\* C6: a successful List My Jobs by user u with page p and page size s
\* returns rows of u only, each once, at most s <= 100 of them, newest first,
\* and the i-th of them holds position (p-1)*s + i of u's jobs in descending
\* creation time (jobs created at the same instant in either order).
C6_ListIsOwnNewestFirstPage ==
  (resp.op = "listMySttJobs" /\ resp.code = "OK")
  => LET u == resp.context[1]
         page == IF resp.input.page = None THEN 1 ELSE resp.input.page[1]
         size == IF resp.input.pageSize = None THEN 20 ELSE resp.input.pageSize[1]
         items == resp.data.items
         n == Len(items)
         mine == {r \in SttJobs : r.userId = u}
         skipped == (page - 1) * size
         rest == IF Cardinality(mine) > skipped THEN Cardinality(mine) - skipped ELSE 0
     IN
     /\ size <= 100
     /\ n <= size
     /\ n = IF rest < size THEN rest ELSE size
     /\ \A i \in 1..n : items[i] \in mine
     /\ \A i \in 1..n : \A j \in 1..n : i # j => items[i] # items[j]
     /\ \A i \in 1..n : \A j \in 1..n :
          i < j => items[i].createdAt >= items[j].createdAt
     /\ \A i \in 1..n :
          /\ Cardinality({r \in mine : r.createdAt > items[i].createdAt})
               <= skipped + i - 1
          /\ Cardinality({r \in mine : r.createdAt >= items[i].createdAt})
               >= skipped + i

\* Page 2 of size 1 returned the older of the caller's two jobs, and not the
\* job of another user.
C6_Witness ==
  /\ resp.op = "listMySttJobs"
  /\ resp.code = "OK"
  /\ resp.input = [page |-> Some(2), pageSize |-> Some(1)]
  /\ Len(resp.data.items) = 1
  /\ \E r \in SttJobs :
       r.userId = resp.context[1] /\ r.createdAt > resp.data.items[1].createdAt
  /\ \E r \in SttJobs : r.userId # resp.context[1]

\* ---------------------------------------------------------------------- C7
\* C7 as stated: a job whose errorMessage is set has status "failed".
C7_Original ==
  \A r \in SttJobs : r.errorMessage # None => r.status = Some("failed")

\* The step C7 is about.
C7_StepOk ==
  \A new \in SttJobs' :
    IF new.id \in {r.id : r \in SttJobs}
      THEN new.errorMessage # RowOf(SttJobs, new.id).errorMessage
           => /\ resp'.op = "updateSttJob"
              /\ resp'.code = "OK"
              /\ resp'.input.id = new.id
              /\ resp'.input.fields.errorMessage # None
              /\ new.errorMessage = resp'.input.fields.errorMessage
      ELSE new.errorMessage = None

\* C7 amended: a job's errorMessage is empty at creation and changes only in
\* a successful Update Job on that job that supplies errorMessage, to the
\* value supplied, whatever the job's status is.
C7_ErrorMessageOnlyByUpdate == [][C7_StepOk]_vars

\* A job that never failed carries an error message.
C7_Witness ==
  \E r \in SttJobs : r.errorMessage = Some("boom") /\ r.status = Some("queued")

\* ---------------------------------------------------------------------- C8
\* The step C8 is about.
C8_StepOk ==
  /\ SttSegments \subseteq SttSegments'
  /\ \A r \in SttJobs : \E q \in SttJobs' : q.id = r.id /\ q.userId = r.userId
  /\ \A g \in SttSegments' : \E r \in SttJobs' : r.id = g.jobId
  /\ \A g \in SttSegments' : \A h \in SttSegments' : g.id = h.id => g = h
  /\ SttSegments' # SttSegments
       => /\ resp'.op = "addSttSegments"
          /\ resp'.code = "OK"
          /\ resp'.context # None
          /\ \A g \in SttSegments' \ SttSegments :
               /\ g.jobId = resp'.input.jobId
               /\ \E r \in SttJobs : r.id = g.jobId /\ r.userId = resp'.context[1]

\* C8: no step removes or changes a segment row or removes a job row or
\* changes its owner; every segment row names an existing job; segment rows
\* appear only in a successful Append Segments, all under the job the call
\* names, which the caller owns.
C8_AppendOnly == [][C8_StepOk]_vars

\* With segments stored, their job was updated and the segments stayed.
C8_Witness ==
  /\ resp.op = "updateSttJob"
  /\ resp.code = "OK"
  /\ Cardinality({g \in SttSegments : g.jobId = resp.input.id}) = 2

\* ---------------------------------------------------------------------- C9
\* The step C9 is about.
C9_StepOk ==
  \A c \in CallIds :
    (calls[c].pc = "selected" /\ calls'[c].pc = "done")
    => LET job == calls[c].job[1]
           new == RowOf(SttJobs', job.id)
       IN
       /\ calls'[c].code = "OK"
       /\ resp'.code = "OK"
       /\ \A f \in ResultFields :
            new[f] = IF calls[c].input.fields[f] # None
                       THEN calls[c].input.fields[f]
                       ELSE job[f]

\* C9: the write step of an Update Job call checks nothing: it always
\* succeeds and sets each result field of the job to the supplied value, or
\* else to the value the call read at its select, whatever the row holds by
\* then.
C9_LastWriterWins == [][C9_StepOk]_vars

\* Two Update Job calls read the same job; one wrote a transcript, then the
\* other, which supplied only a status, wrote the transcript it had read
\* (none) over it; both returned success.
C9_Witness ==
  \E c, d \in CallIds :
    /\ c # d
    /\ calls[c].pc = "done" /\ calls[c].code = "OK"
    /\ calls[d].pc = "done" /\ calls[d].code = "OK"
    /\ calls[c].job[1].id = calls[d].job[1].id
    /\ calls[c].input.fields.transcriptText = Some("hello")
    /\ calls[d].input.fields = UpdateFields(Some("processing"), None, None, None, None, None)
    /\ calls[c].job[1].transcriptText = None
    /\ calls[d].job[1].transcriptText = None
    /\ RowOf(SttJobs, calls[d].job[1].id).transcriptText = None
    /\ RowOf(SttJobs, calls[d].job[1].id).status = Some("processing")

\* --------------------------------------------------------------------- C10
\* The step C10 is about.
C10_StepOk ==
  /\ \A r \in SttJobs' : r.status # None /\ r.status[1] \in StatusEnum
  /\ \A r \in SttJobs :
       \E q \in SttJobs' :
         /\ q.id = r.id
         /\ \A f \in ResultFields : r[f] # None => q[f] # None
  /\ (CallStep /\ resp'.op = "updateSttJob" /\ resp'.code = "OK")
       => \A f \in {"transcriptText", "errorMessage"} :
            resp'.input.fields[f] = Some("")
              => RowOf(SttJobs', resp'.input.id)[f] = Some("")
  /\ (CallStep /\ resp'.op = "updateSttJob" /\ resp'.code = "OK")
       => \A f \in {"durationSeconds", "wordCount"} :
            resp'.input.fields[f] = Some(0)
              => RowOf(SttJobs', resp'.input.id)[f] = Some(0)

\* C10: with calls run one after another, every job's status is one of the
\* four enumerated values, a result field that holds a value still holds one
\* after any step, and a supplied 0 or empty string becomes the field's value.
C10_NoFieldCleared == [][C10_StepOk]_vars

\* A transcript and a duration that held values were replaced by "" and 0.
C10_Witness ==
  /\ resp.op = "updateSttJob"
  /\ resp.code = "OK"
  /\ resp.input.fields.transcriptText = Some("")
  /\ RowOf(SttJobs, resp.input.id).transcriptText = Some("")
  /\ RowOf(SttJobs, resp.input.id).durationSeconds = Some(0)
  /\ RowOf(SttJobs, resp.input.id).completedAt # None
====
